---- MODULE Spec2Model ----
(***************************************************************************)
(* Model of the change-stream consumer of npm-search: Watch (src/watch.ts) *)
(* and backoff (utils/wait.ts).  One Watch process follows the registry's  *)
(* change feed, forwards every change to the main queue index, retrying    *)
(* with backoff, and stores its progress (seq) in the state manager.       *)
(***************************************************************************)
EXTENDS Integers, Sequences, FiniteSets, TLC

(***************************************************************************)
(* Bounds of the model.                                                    *)
(***************************************************************************)
\* the checkpoint the first process starts from
SeqBase == 8
\* number of changes the feed holds after SeqBase
MaxChanges == 2
\* number of rejected queue writes, failed checkpoint saves, 'error' events
\* of the reader and failed queries of the timer
MaxFaults == 2
\* number of terminations of a watching process, each followed by a restart
MaxCrashes == 1
\* largest retry argument given to backoff in BackoffSpec
MaxRetryArg == 10

Cursors == (SeqBase + 1)..(SeqBase + MaxChanges)

VARIABLES
  hasId,          \* the feed: hasId[c] iff the change at cursor c has a non-empty id
  seq,            \* stateManager: the persisted seq
  stage,          \* stateManager: the persisted stage
  mainQueueIndex, \* algoliaStore.mainQueueIndex: the records it accepted
  faults,         \* faults injected so far
  crashes,        \* process terminations so far
  runPc,          \* position of run(): "idle", "saving", "launching", "running", "failed"
  runLog,         \* the calls run() has made, in order
  stopPc,         \* position of stop(): "idle", "oneTime", "periodic", "main", "done"
  stopLog,        \* the calls stop() has made, in order
  stopAt,         \* the position of run() when stop() was called
  startSeq,       \* launchChangeReader: the seq it read from the state manager
  readerOpts,     \* the options changesReader.start was called with
  feedPos,        \* changesReader: cursor of the last change it emitted
  paused,         \* changesReader.paused
  feedStopped,    \* changesReader.stop() was called
  listeners,      \* the 'change' and 'error' handlers are attached to the reader
  changesReader,  \* this.changesReader is assigned
  indexers,       \* per indexer: "undefined", "running", "stopped"
  fwd,            \* per cursor: the storeChange chain of its change
  hist,           \* per cursor: what the change handler did for it, in order
  saves,          \* cursors whose stateManager.save({seq}) has not settled
  reports,        \* number of reports to sentry per kind
  errorEvents,    \* number of 'error' events the reader has emitted
  totalSequence,  \* this.totalSequence
  atCrash,        \* history: what the last termination left behind
  boIn,           \* BackoffSpec: the arguments of a backoff call
  boOut           \* BackoffSpec: the time that call waits

vars == <<hasId, seq, stage, mainQueueIndex, faults, crashes, runPc, runLog, stopPc, stopLog, stopAt,
          startSeq, readerOpts, feedPos, paused, feedStopped, listeners, changesReader,
          indexers, fwd, hist, saves, reports, errorEvents, totalSequence,
          atCrash, boIn, boOut>>

durableVars == <<hasId, seq, stage, mainQueueIndex>>
runVars == <<runPc, runLog>>
stopVars == <<stopPc, stopLog, stopAt>>
auxVars == <<atCrash, boIn, boOut>>
sideVars == <<errorEvents, totalSequence>>

(***************************************************************************)
(* Pure helpers.                                                           *)
(***************************************************************************)
Min(a, b) == IF a <= b THEN a ELSE b

RECURSIVE Pow(_, _)
Pow(b, e) == IF e = 0 THEN 1 ELSE b * Pow(b, e - 1)

Digit == <<"0", "1", "2", "3", "4", "5", "6", "7", "8", "9">>

\* String(n) for a non-negative integer: its decimal digits
RECURSIVE String(_)
String(n) == IF n < 10 THEN <<Digit[n + 1]>>
             ELSE String(n \div 10) \o <<Digit[(n % 10) + 1]>>

DigitValue(d) == (CHOOSE i \in 1..10 : Digit[i] = d) - 1

\* the cursor a since string stands for, as the feed reads it
RECURSIVE ParseSince(_)
ParseSince(s) == IF s = <<>> THEN 0
                 ELSE 10 * ParseSince(SubSeq(s, 1, Len(s) - 1)) + DigitValue(s[Len(s)])

\* config.retryBackoffPow and config.retryBackoffMax
retryBackoffPow == 2
retryBackoffMax == 30000

BackoffNoCap(retry, pow, max) == Pow(retry + 1, pow) * 1000

\* utils/wait.ts backoff: the time it waits, in ms
Backoff(retry, pow, max) == Min(Pow(retry + 1, pow) * 1000, max)

(***************************************************************************)
(* The pieces of Watch the actions are made of.                            *)
(***************************************************************************)
NoOpts == [includeDocs |-> FALSE, batchSize |-> 0, since |-> <<>>]

NoForward == [st |-> "none", retry |-> 0]

Ev(e, k, p) == [ev |-> e, n |-> k, paused |-> p]

\* the change event the feed emits at cursor c
Change(c) == [id |-> IF hasId[c] THEN "pkg" ELSE "", seq |-> c]

StartOptionsFromBase(s) == [includeDocs |-> FALSE, batchSize |-> 1, since |-> String(SeqBase)]

\* launchChangeReader: the options given to changesReader.start
StartOptions(s) == [includeDocs |-> FALSE, batchSize |-> 1, since |-> String(s)]

\* FeedSource.start: the feed resumes strictly after fromCursor
FeedStart(opts) == ParseSince(opts.since)

\* FeedSource: an event is delivered only by a started, running, unpaused feed
FeedReady == /\ runPc = "running"
             /\ ~feedStopped
             /\ ~paused
             /\ feedPos < SeqBase + MaxChanges

SkipChangeNever(change) == FALSE

\* change handler: if (!change.id) return
SkipChange(change) == change.id = ""

PausedOnChangeMissing == paused

\* change handler: npm.db.changesReader.pause()
PausedOnChange == TRUE

PausedOnSettleUnlessStopped == IF feedStopped THEN paused ELSE FALSE

\* change handler: .then(() => npm.db.changesReader.resume())
PausedOnSettle == FALSE

QueueRecordWithRetry(c, retry) == [objectID |-> Change(c).id, retries |-> retry, change |-> Change(c)]

\* storeChange: the object given to mainQueueIndex.saveObject
QueueRecord(c, retry) == [objectID |-> Change(c).id, retries |-> 0, change |-> Change(c)]

\* storeChange(): the chain of a change starts with retry = 0 and a first write
StoreChangeStart == [st |-> "writing", retry |-> 0]

\* storeChange, catch: const newRetry = retry + 1
NewRetry(retry) == retry + 1

OnWriteErrorGiveUp(f) == IF f.retry >= 1 THEN [st |-> "gaveup", retry |-> f.retry]
                         ELSE [st |-> "waiting", retry |-> NewRetry(f.retry)]

OnWriteErrorSkip(f) == [st |-> "done", retry |-> NewRetry(f.retry)]

\* storeChange, catch: wait backoff(newRetry, ...) and then storeChange(newRetry)
OnWriteError(f) == [st |-> "waiting", retry |-> NewRetry(f.retry)]

\* storeChange, catch: the time backoff(newRetry, pow, max) waits
BackoffWait(f) == Backoff(NewRetry(f.retry), retryBackoffPow, retryBackoffMax)

SavesOnChangeDeferred(c) == saves

\* change handler: this.stateManager.save({ seq: change.seq }), not awaited
SavesOnChange(c) == saves \cup {Change(c).seq}

OnSaveErrorSilent(r) == r

\* change handler: save(...).catch((err) => sentry.report(new Error('Error storing watch progress'), { err }))
OnSaveError(r) == [r EXCEPT !.save = @ + 1]

OnErrorEventSilent(r) == r

\* 'error' handler: sentry.report(err)
OnErrorEvent(r) == [r EXCEPT !.transport = @ + 1]

\* npm.db.info().update_seq: the head of the feed
UpdateSeq == SeqBase + MaxChanges

OnInfoErrorReset(t) == 0

\* timer callback: the assignment to this.totalSequence comes after the await
OnInfoError(t) == t

Active(c) == fwd[c].st \in {"writing", "waiting"}

\* the queue index accepted a record of the change at cursor c
Accepted(c) == \E r \in mainQueueIndex : r.change.seq = c

(***************************************************************************)
(* Initial state: a constructed Watch, nothing started; the state manager  *)
(* holds the checkpoint an earlier stage left.                             *)
(***************************************************************************)
ProcessInit ==
  /\ runPc = "idle"
  /\ runLog = <<>>
  /\ stopPc = "idle"
  /\ stopLog = <<>>
  /\ stopAt = "never"
  /\ startSeq = 0
  /\ readerOpts = NoOpts
  /\ feedPos = 0
  /\ paused = FALSE
  /\ feedStopped = FALSE
  /\ listeners = FALSE
  /\ changesReader = FALSE
  /\ indexers = [i \in 1..3 |-> "undefined"]
  /\ fwd = [c \in Cursors |-> NoForward]
  /\ hist = [c \in Cursors |-> <<>>]
  /\ saves = {}
  /\ reports = [save |-> 0, stop |-> 0, transport |-> 0]
  /\ errorEvents = 0
  /\ totalSequence = 0

Init ==
  /\ hasId \in [Cursors -> BOOLEAN]
  /\ seq = SeqBase
  /\ stage = "bootstrap"
  /\ mainQueueIndex = {}
  /\ faults = 0
  /\ crashes = 0
  /\ ProcessInit
  /\ atCrash = [seq |-> 0, lost |-> {}]
  /\ boIn = [retry |-> 0, pow |-> 0, max |-> 0]
  /\ boOut = 0

processVars == <<runPc, runLog, stopPc, stopLog, stopAt, startSeq, readerOpts, feedPos, paused, feedStopped, listeners,
                 changesReader, indexers, fwd, hist, saves, reports, errorEvents,
                 totalSequence>>
feedVars == <<startSeq, readerOpts, feedPos, paused, listeners, changesReader>>
fwdVars == <<fwd, hist, saves>>

(***************************************************************************)
(* run()                                                                   *)
(***************************************************************************)
RunStepsIndexersFirst ==
  <<"oneTimeIndexer.run", "periodicDataIndexer.run", "mainWatchIndexer.run",
    "setInterval", "stateManager.get">>

\* run() after the stage is saved: what it calls, in order, up to the next await
RunSteps ==
  <<"setInterval", "oneTimeIndexer.run", "periodicDataIndexer.run",
    "mainWatchIndexer.run", "stateManager.get">>

\* run() is called: it awaits stateManager.save({ stage: 'watch' })
RunCall ==
  /\ runPc = "idle"
  /\ runPc' = "saving"
  /\ runLog' = <<"stateManager.save">>
  /\ UNCHANGED <<durableVars, faults, crashes, stopVars, feedVars, feedStopped,
                 indexers, fwdVars, reports, sideVars, auxVars>>

\* the stage is saved: the timer and the three indexers are started and
\* launchChangeReader awaits stateManager.get()
RunStageSaved ==
  /\ runPc = "saving"
  /\ stage' = "watch"
  /\ indexers' = [i \in 1..3 |-> "running"]
  /\ runPc' = "launching"
  /\ runLog' = runLog \o RunSteps
  /\ UNCHANGED <<hasId, seq, mainQueueIndex, faults, crashes, stopVars, feedVars,
                 feedStopped, fwdVars, reports, sideVars, auxVars>>

\* saving the stage fails: run() rejects
RunStageFailed ==
  /\ runPc = "saving"
  /\ runPc' = "failed"
  /\ UNCHANGED runLog
  /\ UNCHANGED <<durableVars, faults, crashes, stopVars, feedVars, feedStopped, indexers,
                 fwdVars, reports, sideVars, auxVars>>

\* launchChangeReader after get(): start the reader from seq, attach the handlers
LaunchChangeReader ==
  /\ runPc = "launching"
  /\ startSeq' = seq
  /\ readerOpts' = StartOptions(startSeq')
  /\ feedPos' = FeedStart(readerOpts')
  /\ feedStopped' = FALSE
  /\ listeners' = TRUE
  /\ changesReader' = TRUE
  /\ runPc' = "running"
  /\ runLog' = runLog \o <<"changesReader.start">>
  /\ UNCHANGED <<durableVars, faults, crashes, stopVars, paused, indexers, fwdVars,
                 reports, sideVars, auxVars>>

(***************************************************************************)
(* The change handler and the storeChange chain.                           *)
(***************************************************************************)
\* the reader emits the next change and the 'change' handler runs to its end
OnChange ==
  /\ FeedReady
  /\ LET c == feedPos + 1
         p == PausedOnChange
     IN /\ feedPos' = c
        /\ IF ~listeners \/ SkipChange(Change(c))
             THEN UNCHANGED <<paused, fwd, hist, saves>>
             ELSE /\ paused' = p
                  /\ fwd' = [fwd EXCEPT ![c] = StoreChangeStart]
                  /\ hist' = [hist EXCEPT ![c] =
                       @ \o << Ev("write", QueueRecord(c, StoreChangeStart.retry).retries, p),
                               Ev("progress", Change(c).seq, p) >>
                         \o (IF Change(c).seq \in SavesOnChange(c)
                               THEN << Ev("save", Change(c).seq, p) >> ELSE << >>)]
                  /\ saves' = SavesOnChange(c)
  /\ UNCHANGED <<durableVars, faults, crashes, runVars, stopVars, startSeq, readerOpts, feedStopped,
                 listeners, changesReader, indexers, reports, sideVars, auxVars>>

\* saveObject resolves: the chain settles and the reader is resumed
WriteOk(c) ==
  /\ fwd[c].st = "writing"
  /\ mainQueueIndex' = mainQueueIndex \cup {QueueRecord(c, fwd[c].retry)}
  /\ fwd' = [fwd EXCEPT ![c].st = "done"]
  /\ paused' = PausedOnSettle
  /\ hist' = [hist EXCEPT ![c] = @ \o << Ev("ok", fwd[c].retry, paused),
                                         Ev("resume", fwd[c].retry, paused) >>]
  /\ UNCHANGED <<hasId, seq, stage, faults, crashes, runVars, stopVars, startSeq, readerOpts, feedPos,
                 feedStopped, listeners, changesReader, indexers, saves, reports, sideVars, auxVars>>

\* saveObject rejects: the chain logs the error and waits backoff(newRetry, ...)
WriteFail(c) ==
  /\ fwd[c].st = "writing"
  /\ faults < MaxFaults
  /\ faults' = faults + 1
  /\ fwd' = [fwd EXCEPT ![c] = OnWriteError(fwd[c])]
  /\ hist' = [hist EXCEPT ![c] = @ \o << Ev("fail", fwd[c].retry, paused),
                                         Ev("backoff", BackoffWait(fwd[c]), paused) >>]
  /\ UNCHANGED <<durableVars, crashes, runVars, stopVars, feedVars, feedStopped, indexers,
                 saves, reports, sideVars, auxVars>>

\* the backoff timer fires: storeChange(newRetry) writes again
BackoffDone(c) ==
  /\ fwd[c].st = "waiting"
  /\ fwd' = [fwd EXCEPT ![c].st = "writing"]
  /\ hist' = [hist EXCEPT ![c] =
                @ \o << Ev("write", QueueRecord(c, fwd[c].retry).retries, paused) >>]
  /\ UNCHANGED <<durableVars, faults, crashes, runVars, stopVars, feedVars, feedStopped,
                 indexers, saves, reports, sideVars, auxVars>>

\* stateManager.save({ seq }) resolves: the checkpoint is persisted
SaveOk(c) ==
  /\ c \in saves
  /\ seq' = c
  /\ saves' = saves \ {c}
  /\ UNCHANGED <<hasId, stage, mainQueueIndex, faults, crashes, runVars, stopVars, feedVars,
                 feedStopped, indexers, fwd, hist, reports, sideVars, auxVars>>

\* stateManager.save({ seq }) rejects: the error is reported
SaveFail(c) ==
  /\ c \in saves
  /\ faults < MaxFaults
  /\ faults' = faults + 1
  /\ saves' = saves \ {c}
  /\ reports' = OnSaveError(reports)
  /\ UNCHANGED <<durableVars, crashes, runVars, stopVars, feedVars, feedStopped, indexers,
                 fwd, hist, sideVars, auxVars>>

\* the reader emits an 'error' event and the 'error' handler runs
OnError ==
  /\ runPc = "running"
  /\ listeners
  /\ faults < MaxFaults
  /\ faults' = faults + 1
  /\ errorEvents' = errorEvents + 1
  /\ reports' = OnErrorEvent(reports)
  /\ UNCHANGED <<durableVars, crashes, runVars, stopVars, feedVars, feedStopped, indexers,
                 fwdVars, totalSequence, auxVars>>

(***************************************************************************)
(* The timer run() starts.                                                 *)
(***************************************************************************)
\* setInterval was called; nothing clears the interval
TimerStarted == \E k \in 1..Len(runLog) : runLog[k] = "setInterval"

\* a tick whose npm.db.info() resolves: totalSequence is set to update_seq
TickOk ==
  /\ TimerStarted
  /\ totalSequence' = UpdateSeq
  /\ UNCHANGED <<durableVars, faults, crashes, runVars, stopVars, feedVars, feedStopped,
                 indexers, fwdVars, reports, errorEvents, auxVars>>

\* a tick whose npm.db.info() rejects: the callback ends at its await
TickFail ==
  /\ TimerStarted
  /\ faults < MaxFaults
  /\ faults' = faults + 1
  /\ totalSequence' = OnInfoError(totalSequence)
  /\ UNCHANGED <<durableVars, crashes, runVars, stopVars, feedVars, feedStopped,
                 indexers, fwdVars, reports, errorEvents, auxVars>>

(***************************************************************************)
(* stop()                                                                  *)
(***************************************************************************)
StopStep(i) == <<"oneTime", "periodic", "main", "done">>[i]

\* the stop() calls of the three indexers, in the order stop() awaits them
StopCalls == <<"oneTimeIndexer.stop", "periodicDataIndexer.stop", "mainWatchIndexer.stop">>

\* this.changesReader?.removeAllListeners?.()
ListenersAfterStop == IF changesReader THEN FALSE ELSE listeners

\* the call this.changesReader?.removeAllListeners?.() makes, if any
RemoveCall == IF changesReader THEN <<"removeAllListeners">> ELSE <<>>

StopAfterFailNext(i) == StopStep(i + 1)

\* catch (err): a failed stop leaves the try block, the steps after it are skipped
StopAfterFail(i) == "done"

StopAfterReaderFailGuarded == IF indexers[1] = "undefined" THEN "done" ELSE StopStep(1)

\* try { npm.db.changesReader.stop(); ... }: the transport's stop is inside the
\* same try block as the indexers' stops
StopAfterReaderFail == "done"

\* what stop() calls when it gets to position pc
StopEnter(pc) == IF pc = "done" THEN RemoveCall
                 ELSE <<StopCalls[CHOOSE i \in 1..3 : StopStep(i) = pc]>>

\* stop() is called and npm.db.changesReader.stop() returns; the indexers are
\* stopped next, when there are any
StopCall ==
  /\ stopPc = "idle"
  /\ stopAt' = runPc
  /\ feedStopped' = TRUE
  /\ stopPc' = IF indexers[1] = "undefined" THEN "done" ELSE StopStep(1)
  /\ stopLog' = <<"changesReader.stop">> \o StopEnter(stopPc')
  /\ listeners' = IF stopPc' = "done" THEN ListenersAfterStop ELSE listeners
  /\ UNCHANGED <<durableVars, faults, crashes, runVars, startSeq, readerOpts, feedPos, paused,
                 changesReader, indexers, fwdVars, reports, sideVars, auxVars>>

\* npm.db.changesReader.stop() throws, having stopped the transport or not:
\* reported, no indexer is stopped
StopCallFail ==
  /\ stopPc = "idle"
  /\ stopAt' = runPc
  /\ stopPc' = StopAfterReaderFail
  /\ stopLog' = <<"changesReader.stop", "report">> \o StopEnter(stopPc')
  /\ feedStopped' \in {feedStopped, TRUE}
  /\ reports' = [reports EXCEPT !.stop = @ + 1]
  /\ listeners' = IF stopPc' = "done" THEN ListenersAfterStop ELSE listeners
  /\ UNCHANGED <<durableVars, faults, crashes, runVars, startSeq, readerOpts, feedPos, paused,
                 changesReader, indexers, fwdVars, sideVars, auxVars>>

\* the awaited stop() of indexer i resolves
StopIndexerOk(i) ==
  /\ stopPc = StopStep(i)
  /\ indexers' = [indexers EXCEPT ![i] = "stopped"]
  /\ stopPc' = StopStep(i + 1)
  /\ stopLog' = stopLog \o StopEnter(stopPc')
  /\ listeners' = IF stopPc' = "done" THEN ListenersAfterStop ELSE listeners
  /\ UNCHANGED <<durableVars, faults, crashes, runVars, startSeq, readerOpts, feedPos, paused,
                 feedStopped, changesReader, fwdVars, reports, stopAt, sideVars, auxVars>>

\* the awaited stop() of indexer i rejects: reported, the rest is skipped
StopIndexerFail(i) ==
  /\ stopPc = StopStep(i)
  /\ stopPc' = StopAfterFail(i)
  /\ stopLog' = stopLog \o <<"report">> \o StopEnter(stopPc')
  /\ reports' = [reports EXCEPT !.stop = @ + 1]
  /\ listeners' = IF stopPc' = "done" THEN ListenersAfterStop ELSE listeners
  /\ UNCHANGED <<durableVars, faults, crashes, runVars, startSeq, readerOpts, feedPos, paused,
                 feedStopped, changesReader, indexers, fwdVars, stopAt, sideVars, auxVars>>

(***************************************************************************)
(* The process terminates and a new one is constructed: everything in      *)
(* memory is lost, the state manager and the queue index keep what they    *)
(* hold.  A request that was in flight may still reach its store.          *)
(***************************************************************************)
Crash ==
  /\ crashes < MaxCrashes
  /\ runPc = "running"
  /\ crashes' = crashes + 1
  /\ seq' \in {seq} \cup saves
  /\ \E landed \in SUBSET {c \in Cursors : fwd[c].st = "writing"} :
       mainQueueIndex' = mainQueueIndex \cup {QueueRecord(c, fwd[c].retry) : c \in landed}
  /\ runPc' = "idle"
  /\ runLog' = <<>>
  /\ stopPc' = "idle"
  /\ stopLog' = <<>>
  /\ stopAt' = "never"
  /\ startSeq' = 0
  /\ readerOpts' = NoOpts
  /\ feedPos' = 0
  /\ paused' = FALSE
  /\ feedStopped' = FALSE
  /\ listeners' = FALSE
  /\ changesReader' = FALSE
  /\ indexers' = [i \in 1..3 |-> "undefined"]
  /\ fwd' = [c \in Cursors |-> NoForward]
  /\ hist' = [c \in Cursors |-> <<>>]
  /\ saves' = {}
  /\ reports' = [save |-> 0, stop |-> 0, transport |-> 0]
  /\ errorEvents' = 0
  /\ totalSequence' = 0
  /\ atCrash' = [seq |-> seq',
                 lost |-> {c \in Cursors : /\ hasId[c]
                                           /\ c <= seq'
                                           /\ \A r \in mainQueueIndex' : r.change.seq # c}]
  /\ UNCHANGED <<hasId, stage, faults, boIn, boOut>>

Next ==
  \/ RunCall
  \/ RunStageSaved
  \/ RunStageFailed
  \/ LaunchChangeReader
  \/ OnChange
  \/ \E c \in Cursors : WriteOk(c)
  \/ \E c \in Cursors : WriteFail(c)
  \/ \E c \in Cursors : BackoffDone(c)
  \/ \E c \in Cursors : SaveOk(c)
  \/ \E c \in Cursors : SaveFail(c)
  \/ StopCall
  \/ StopCallFail
  \/ \E i \in 1..3 : StopIndexerOk(i)
  \/ \E i \in 1..3 : StopIndexerFail(i)
  \/ Crash

\* the life of Watch processes: run(), the change handler, stop(), restarts
Spec == Init /\ [][Next]_vars

SideNext ==
  \/ RunCall
  \/ RunStageSaved
  \/ RunStageFailed
  \/ LaunchChangeReader
  \/ OnChange
  \/ \E c \in Cursors : WriteOk(c)
  \/ \E c \in Cursors : WriteFail(c)
  \/ \E c \in Cursors : BackoffDone(c)
  \/ \E c \in Cursors : SaveOk(c)
  \/ \E c \in Cursors : SaveFail(c)
  \/ OnError
  \/ TickOk
  \/ TickFail
  \/ StopCall
  \/ StopCallFail
  \/ \E i \in 1..3 : StopIndexerOk(i)
  \/ \E i \in 1..3 : StopIndexerFail(i)

\* one Watch process together with its 'error' handler and its timer
SideSpec == Init /\ [][SideNext]_vars

\* a feed whose changes all have an id
LiveInit == Init /\ hasId = [c \in Cursors |-> TRUE]

\* every write settles and every backoff timer fires
LiveSpec ==
  /\ LiveInit
  /\ [][Next]_vars
  /\ WF_vars(\E c \in Cursors : WriteOk(c) \/ WriteFail(c))
  /\ WF_vars(\E c \in Cursors : BackoffDone(c))

(***************************************************************************)
(* backoff on its own: any arguments, one call.                            *)
(***************************************************************************)
PowArgs == {1, 2, 3}
MaxArgs == {500, 30000, 60000}

BackoffInit ==
  /\ hasId = [c \in Cursors |-> TRUE]
  /\ seq = SeqBase
  /\ stage = "bootstrap"
  /\ mainQueueIndex = {}
  /\ faults = 0
  /\ crashes = 0
  /\ ProcessInit
  /\ atCrash = [seq |-> 0, lost |-> {}]
  /\ boIn \in [retry : 0..MaxRetryArg, pow : PowArgs, max : MaxArgs]
  /\ boOut = -1

\* await backoff(retry, pow, max)
BackoffCall ==
  /\ boOut = -1
  /\ boOut' = Backoff(boIn.retry, boIn.pow, boIn.max)
  /\ UNCHANGED <<durableVars, faults, crashes, processVars, atCrash, boIn>>

BackoffNext == BackoffCall

BackoffSpec == BackoffInit /\ [][BackoffNext]_vars

(***************************************************************************)
(* Properties.                                                             *)
(***************************************************************************)
Events(c, e) == {i \in 1..Len(hist[c]) : hist[c][i].ev = e}
Count(c, e) == Cardinality(Events(c, e))

\* C1: in every reachable state at most one change has a storeChange chain
\* that has started and not yet succeeded, whatever the feed, the queue and
\* stop() did
C1_AtMostOneForward == Cardinality({c \in Cursors : Active(c)}) <= 1

\* C1's case: a second change is retried after a rejected write, after the
\* first was forwarded and stop() has returned
C1_Witness ==
  \E c, d \in Cursors :
    /\ fwd[d].st = "done"
    /\ fwd[c].st = "waiting"
    /\ stopPc = "done"

\* C2: the feed is paused when each write of a change is attempted, resume is
\* called only after a write of the change was accepted, and no later change
\* is delivered before that
C2_PausedUntilForwarded ==
  \A c \in Cursors :
    /\ \A i \in Events(c, "write") : hist[c][i].paused
    /\ Active(c) => /\ paused
                    /\ feedPos = c
                    /\ Events(c, "resume") = {}
    /\ \A i \in Events(c, "resume") :
         /\ Accepted(c)
         /\ i > 1
         /\ hist[c][i - 1].ev = "ok"
         /\ \A j \in Events(c, "write") : j < i

\* C2's case: A was retried and forwarded, the feed was resumed and B is being
\* written
C2_Witness ==
  \E a, b \in Cursors :
    /\ a < b
    /\ Count(a, "fail") >= 1
    /\ Count(a, "resume") = 1
    /\ fwd[b].st = "writing"

\* C3, as stated: no change is lost, also across a termination in the middle
\* of its retry loop: every change with an id that the running feed has passed
\* (with the handlers attached) is accepted by the queue or in its chain
C3_NeverLost ==
  \A c \in Cursors :
    (hasId[c] /\ runPc = "running" /\ listeners /\ c <= feedPos)
      => Accepted(c) \/ Active(c)

\* C3, amended: the same after a termination, for the changes whose cursor is
\* above the checkpoint that was persisted when the process terminated
C3_RedeliveredUnlessCheckpointed ==
  \A c \in Cursors :
    (hasId[c] /\ runPc = "running" /\ listeners /\ crashes >= 1
       /\ atCrash.seq < c /\ c <= feedPos)
      => Accepted(c) \/ Active(c)

\* C3's case: the first change was delivered and never accepted before the
\* termination (the one fault so far hit it, in the process that terminated),
\* the checkpoint stayed below it, and the new process is writing it again
C3_Witness ==
  LET c == SeqBase + 1
  IN /\ crashes = 1
     /\ runPc = "running"
     /\ atCrash.seq < c
     /\ feedPos = c
     /\ fwd[c].st = "writing"
     /\ ~Accepted(c)
     /\ faults >= 1
     /\ Count(c, "fail") = 0
     /\ reports.save = 0

\* C4: a change whose first N writes are rejected is written N+1 times, and
\* every object written carries retries = 0
C4_AttemptsAndRetriesField ==
  /\ \A r \in mainQueueIndex : r.retries = 0
  /\ \A c \in Cursors :
       /\ \A i \in Events(c, "write") : hist[c][i].n = 0
       /\ fwd[c].st \in {"writing", "done"} => Count(c, "write") = Count(c, "fail") + 1
       /\ fwd[c].st = "waiting" => Count(c, "write") = Count(c, "fail")
       /\ fwd[c].st = "done" => /\ Count(c, "ok") = 1
                                /\ fwd[c].retry = Count(c, "fail")
                                /\ hist[c][Len(hist[c]) - 1].ev = "ok"

\* C4's case: two rejected writes, then an accepted one
C4_Witness ==
  \E c \in Cursors :
    /\ fwd[c].st = "done"
    /\ Count(c, "fail") = MaxFaults
    /\ Count(c, "write") = MaxFaults + 1
    /\ Accepted(c)

\* C5, as stated: the k-th wait of a change is backoff(k - 1, ...), so with
\* pow = 2 and max = 30000 the waits are 1000, 4000, 9000
C5_WaitsCountFromZero ==
  \A c \in Cursors :
    \A i \in Events(c, "backoff") :
      hist[c][i].n = Backoff(Cardinality({j \in Events(c, "backoff") : j < i}),
                             retryBackoffPow, retryBackoffMax)

\* (retry + 1) ^ pow, multiplied out
Power(b, pow) == CASE pow = 1 -> b
                   [] pow = 2 -> b * b
                   [] pow = 3 -> b * b * b

\* C6: backoff(retry, pow, max) waits min((retry + 1)^pow * 1000, max) ms, never
\* more than max, and touches nothing else
C6_BackoffFormula ==
  boOut # -1 =>
    LET raw == Power(boIn.retry + 1, boIn.pow) * 1000
    IN /\ boOut = (IF raw < boIn.max THEN raw ELSE boIn.max)
       /\ boOut <= boIn.max
       /\ (boIn.pow = 2 /\ boIn.max = 30000) =>
            /\ boIn.retry = 0 => boOut = 1000
            /\ boIn.retry = 1 => boOut = 4000
            /\ boIn.retry = 2 => boOut = 9000
            /\ boIn.retry = 9 => boOut = 30000
       /\ seq = SeqBase /\ mainQueueIndex = {} /\ ~paused /\ saves = {}
       /\ runPc = "idle" /\ fwd = [c \in Cursors |-> NoForward]

\* C6's case: backoff(9, 2, 30000) was called and waited the capped 30000
C6_Witness ==
  /\ boIn = [retry |-> 9, pow |-> 2, max |-> 30000]
  /\ boOut = 30000

\* C7: while a change is being forwarded the feed stays paused, and when writes
\* settle and timers fire the forward ends accepted, with the feed resumed,
\* unless the process terminates first
C7_ForwardSettles ==
  /\ [](\A c \in Cursors : Active(c) => paused)
  /\ (\E c \in Cursors : Active(c))
       ~> \/ /\ ~paused
             /\ \A c \in Cursors : fwd[c].st # "none" => fwd[c].st = "done" /\ Accepted(c)
          \/ runPc = "idle"

\* C7's case: a change was rejected as often as the queue rejects, then
\* accepted, and the feed is resumed
C7_Witness ==
  \E c \in Cursors :
    /\ Count(c, "fail") = MaxFaults
    /\ fwd[c].st = "done"
    /\ ~paused

\* C8: the handler calls stateManager.save({ seq }) once for every change it
\* forwards, with the change's seq, before the first write settles and
\* whatever the number of retries; a skipped change is not saved
C8_SaveOncePerChange ==
  \A c \in Cursors :
    /\ fwd[c].st # "none" =>
         /\ Count(c, "save") = 1
         /\ \A i \in Events(c, "save") :
              /\ hist[c][i].n = c
              /\ \A j \in Events(c, "fail") \cup Events(c, "ok") : i < j
    /\ fwd[c].st = "none" => Count(c, "save") = 0 /\ c \notin saves
    /\ c \in saves => Count(c, "save") = 1

\* C8's case: the checkpoint of a change is persisted while the change is still
\* being retried
C8_Witness ==
  \E c \in Cursors :
    /\ Active(c)
    /\ Count(c, "fail") = MaxFaults
    /\ seq = c
    /\ c \notin saves

\* C9: a change at or below the checkpoint and not accepted when the process
\* terminated is never delivered and never forwarded afterwards
C9_LostAfterCrash ==
  \A c \in atCrash.lost :
    /\ ~Accepted(c)
    /\ fwd[c].st = "none"
    /\ hist[c] = <<>>
    /\ runPc = "running" => startSeq >= c /\ feedPos >= c

\* C9's case: the checkpoint was c, c was not accepted, the process terminated
\* and the new one forwarded a later change
C9_Witness ==
  \E c \in atCrash.lost :
    /\ c = atCrash.seq
    /\ runPc = "running"
    /\ \E d \in Cursors : d > c /\ fwd[d].st = "done"

\* C10: the feed is started with includeDocs false, batchSize 1 and since the
\* decimal string of the seq read from the state manager, and every change
\* delivered afterwards has a greater seq
C10_StartAfterCheckpoint ==
  runPc = "running" =>
    /\ readerOpts.includeDocs = FALSE
    /\ readerOpts.batchSize = 1
    /\ startSeq = (IF crashes = 0 THEN SeqBase ELSE atCrash.seq)
    /\ Len(readerOpts.since) >= 1
    /\ \A i \in 1..Len(readerOpts.since) : \E k \in 1..10 : readerOpts.since[i] = Digit[k]
    /\ (Len(readerOpts.since) > 1 => readerOpts.since[1] # "0")
    /\ ParseSince(readerOpts.since) = startSeq
    /\ feedPos >= startSeq
    /\ \A c \in Cursors : (fwd[c].st # "none" \/ hist[c] # <<>>) => c > startSeq

\* C10's case: after a restart the checkpoint read is above the first one and a
\* change above it is delivered
C10_Witness ==
  /\ runPc = "running"
  /\ crashes >= 1
  /\ startSeq > SeqBase
  /\ \E c \in Cursors : c > startSeq /\ fwd[c].st = "writing"

IsStopCall(e) == e \in {"changesReader.stop"} \cup {StopCalls[i] : i \in 1..3}

\* C11: stop() calls the transport's stop first and then the stop of the
\* one-time, the periodic and the main indexer, in this order and each at most
\* once; once one of these calls has failed no later one is made, the failure
\* is reported exactly once and stop() has run to its end.
C11_StopOrderShortCircuit ==
  LET calls == SelectSeq(stopLog, IsStopCall)
      order == <<"changesReader.stop">> \o StopCalls
  IN /\ stopPc # "idle" => /\ calls # <<>>
                           /\ calls = SubSeq(order, 1, Len(calls))
     /\ \A i \in 1..3 : indexers[i] = "stopped" => Len(calls) >= i + 1
     /\ Cardinality({k \in 1..Len(stopLog) : stopLog[k] = "report"}) = reports.stop
     /\ reports.stop <= 1
     /\ \A k \in 1..Len(stopLog) :
          stopLog[k] = "report" =>
            /\ stopPc = "done"
            /\ k > 1 /\ IsStopCall(stopLog[k - 1])
            /\ \A m \in (k + 1)..Len(stopLog) : ~IsStopCall(stopLog[m])

\* the one-time indexer's stop failed: the other two are still running,
\* one report, stop() is done
C11_Witness ==
  /\ stopPc = "done"
  /\ stopLog = <<"changesReader.stop", "oneTimeIndexer.stop", "report", "removeAllListeners">>
  /\ indexers = <<"running", "running", "running">>
  /\ reports.stop = 1

\* C12: a step in which the handler gets a change without id changes nothing
\* but the feed's position: the reader is not paused, no chain starts, nothing
\* is written to the queue index, no save is issued, no progress is reported,
\* and the persisted checkpoint and the paused state stay as they are.
C12_SkippedChangeNoEffect ==
  [][(/\ runPc = "running" /\ runPc' = "running"
      /\ feedPos' = feedPos + 1
      /\ ~hasId[feedPos'])
     => UNCHANGED <<paused, fwd, hist, saves, seq, stage, mainQueueIndex, reports>>]_vars

\* the handler has seen a change without id and left no trace of it
C12_Witness ==
  \E c \in Cursors :
    /\ runPc = "running" /\ listeners
    /\ startSeq < c /\ feedPos >= c
    /\ ~hasId[c]
    /\ fwd[c] = NoForward /\ hist[c] = <<>>
    /\ c \notin saves /\ seq # c
    /\ ~paused

\* C13: stop() leaves a running storeChange chain alone: no step of stop()
\* changes a chain, its events, the pending saves or the paused flag; after
\* stop() has returned a waiting chain can still write again and a writing
\* chain can still succeed, and when it succeeds resume() is called on the
\* stopped reader.
C13_StopLeavesForwardRunning ==
  [][/\ (stopPc' # stopPc /\ stopPc' # "idle")
          => UNCHANGED <<fwd, hist, saves, paused, mainQueueIndex>>
     /\ \A c \in Cursors :
          /\ (stopPc = "done" /\ fwd[c].st = "waiting") => ENABLED BackoffDone(c)
          /\ (stopPc = "done" /\ fwd[c].st = "writing") => ENABLED WriteOk(c)
          /\ (stopPc = "done" /\ fwd[c].st = "writing" /\ fwd'[c].st = "done")
                => /\ ~paused'
                   /\ hist'[c][Len(hist'[c])].ev = "resume"
                   /\ Accepted(c)']_vars

\* stop() has returned with the transport stopped while a chain waits between
\* two attempts, and the next attempt can be made
C13_Witness ==
  \E c \in Cursors :
    /\ stopPc = "done" /\ feedStopped /\ ~listeners
    /\ fwd[c].st = "waiting" /\ paused
    /\ ENABLED BackoffDone(c)

\* C14: whenever stop() was called after run() and has completed, also when it
\* was called while run() was still awaiting the stage save or the checkpoint
\* read, no handler is attached to the reader this Watch started.
C14_NoListenersAfterStop ==
  (stopPc = "done" /\ stopAt \in {"saving", "launching", "running"}) => ~listeners

\* C15: a step in which a pending save({ seq }) fails is reported once and
\* does nothing else: the save is not issued again, the persisted state, the
\* chains, the paused flag, the feed and both run() and stop() stay as they
\* are, and a chain that is writing can still succeed.
C15_SaveFailureOnlyReported ==
  [][\A c \in Cursors :
       (c \in saves /\ c \notin saves' /\ seq' = seq /\ runPc' = runPc)
       => /\ reports' = [reports EXCEPT !.save = @ + 1]
          /\ saves' = saves \ {c}
          /\ UNCHANGED <<seq, stage, mainQueueIndex, paused, fwd, hist, feedPos,
                         feedStopped, listeners, stopPc, indexers>>
          /\ \A d \in Cursors : fwd[d].st = "writing" => ENABLED WriteOk(d)]_vars

\* the save of one change failed and was reported; the change was forwarded and
\* the reader resumed, the next change was delivered and its save set the
\* checkpoint
C15_Witness ==
  \E c, d \in Cursors :
    /\ c < d /\ startSeq < c
    /\ reports.save = 1
    /\ Count(c, "save") = 1 /\ c \notin saves
    /\ fwd[c].st = "done" /\ Accepted(c)
    /\ fwd[d].st # "none"
    /\ seq = d

\* C16: run() works in a fixed order: the stage save is issued first and is
\* persisted before anything else happens, then the timer is started, then the
\* one-time, the periodic and the main indexer, then the checkpoint is read and
\* the reader is started last; when the stage save fails run() has failed and
\* neither the timer nor an indexer nor the reader was started.
C16_RunOrder ==
  LET order == <<"stateManager.save", "setInterval", "oneTimeIndexer.run",
                 "periodicDataIndexer.run", "mainWatchIndexer.run",
                 "stateManager.get", "changesReader.start">>
  IN /\ Len(runLog) <= Len(order)
     /\ runLog = SubSeq(order, 1, Len(runLog))
     /\ Len(runLog) >= 2 => stage = "watch"
     /\ (\E i \in 1..3 : indexers[i] # "undefined") => Len(runLog) >= 5
     /\ (readerOpts # NoOpts \/ listeners \/ changesReader \/ feedPos # 0) => Len(runLog) = 7
     /\ runPc = "failed" => /\ runLog = <<"stateManager.save">>
                            /\ indexers = [i \in 1..3 |-> "undefined"]
                            /\ readerOpts = NoOpts /\ ~listeners /\ feedPos = 0

\* run() has gone through all its steps and the reader is started
C16_Witness ==
  /\ runPc = "running"
  /\ Len(runLog) = 7 /\ runLog[2] = "setInterval" /\ runLog[7] = "changesReader.start"
  /\ stage = "watch"
  /\ indexers = [i \in 1..3 |-> "running"]
  /\ listeners /\ readerOpts # NoOpts

\* C17: a step in which the reader emits an 'error' event is reported once
\* and changes nothing else: the paused flag, the transport (neither stopped
\* nor started again), the feed's position, the handlers, the chains, the
\* pending saves, the persisted state and the positions of run() and stop()
\* stay as they are.
C17_TransportErrorOnlyReported ==
  [][errorEvents' = errorEvents + 1
     => /\ reports' = [reports EXCEPT !.transport = @ + 1]
        /\ UNCHANGED <<paused, feedStopped, feedPos, startSeq, readerOpts, listeners,
                       changesReader, fwd, hist, saves, seq, stage, mainQueueIndex,
                       runPc, runLog, stopPc, stopLog, indexers>>]_vars

\* an 'error' event was reported while a change was being forwarded: the chain
\* is still at work, the reader still paused and not stopped
C17_Witness ==
  \E c \in Cursors :
    /\ runPc = "running" /\ stopPc = "idle"
    /\ errorEvents = 1 /\ reports.transport = 1
    /\ Active(c) /\ paused /\ ~feedStopped /\ listeners

C19_CursorNeverDecreases ==
  [][crashes' = crashes => seq' >= seq]_vars

\* C20: the queue index accepts the changes of one process in feed order: when
\* a write of a change B was attempted, every change A the same process
\* handled before B has had its successful write.
C20_AcceptedInFeedOrder ==
  \A a, b \in Cursors :
    (a < b /\ hist[a] # <<>> /\ Count(b, "write") >= 1)
      => /\ fwd[a].st = "done"
         /\ Count(a, "ok") = 1
         /\ Accepted(a)

\* A was rejected as often as the queue rejects and then accepted, and B, the
\* next change, was written after it
C20_Witness ==
  \E a, b \in Cursors :
    /\ a < b
    /\ Count(a, "fail") = MaxFaults /\ Count(a, "ok") = 1
    /\ Count(b, "write") = 1 /\ fwd[b].st = "done"
    /\ Accepted(a) /\ Accepted(b)

\* C21: when the transport's own stop fails in stop(), the failure is
\* reported once, stop() has run to its end, and no stop of an indexer was
\* called: the log of stop() holds nothing but the transport's stop, the
\* report and the removal of the listeners, and no indexer is stopped.
C21_ReaderStopSharesGuard ==
  (Len(stopLog) >= 2 /\ stopLog[1] = "changesReader.stop" /\ stopLog[2] = "report")
    => /\ stopPc = "done"
       /\ reports.stop = 1
       /\ \A k \in 1..Len(stopLog) : \A i \in 1..3 : stopLog[k] # StopCalls[i]
       /\ \A k \in 3..Len(stopLog) : stopLog[k] = "removeAllListeners"
       /\ Len(stopLog) <= 3
       /\ \A i \in 1..3 : indexers[i] # "stopped"

\* the transport's stop failed while Watch was running with its three
\* indexers: they are all still running, one report, the listeners are removed
\* and stop() is done
C21_Witness ==
  /\ stopAt = "running"
  /\ stopPc = "done"
  /\ stopLog = <<"changesReader.stop", "report", "removeAllListeners">>
  /\ indexers = [i \in 1..3 |-> "running"]
  /\ reports.stop = 1
  /\ ~listeners

====
